---- MODULE Spec2Model ----
(***************************************************************************)
(* Model of the REST handlers of the backend: the user handlers of         *)
(* backend/handlers/users.go over the users table, GetUserFromSession over *)
(* the session store, and AddSubject over the subjects table.              *)
(*                                                                         *)
(* The HTTP server runs one goroutine per request and the handlers hold no *)
(* lock and open no transaction, so a handler is modelled as one atomic    *)
(* step per database call (db.First, db.Where(...).First, db.Create,       *)
(* db.Delete, db.Updates, db.Find); the Go code between two database calls *)
(* touches only the goroutine's own variables and belongs to the step of   *)
(* the call before it.  Steps of different workers interleave freely.      *)
(*                                                                         *)
(* Request bodies carry username, password, is_tutor and one profile field *)
(* (first_name); the identifier of a user travels in the URL, never in the *)
(* body.  The zero value of a field stands for "absent from the JSON body" *)
(* as well, as it does after json.Decode into a models.User.  Primary keys *)
(* are auto-increment values and are never reused.  Passwords stay below   *)
(* bcrypt's 72-byte limit.                                                 *)
(***************************************************************************)
EXTENDS Integers, Sequences, FiniteSets, TLC

\* Rows db.Create may insert in one run (cap of the auto-increment key).
MaxUsers == 2
\* Requests served in one run.
MaxRequests == 3
\* Rows the subjects table may receive in one run.
MaxSubjects == 2

Workers == {"w1", "w2"}
Usernames == {"a", "b"}
FirstNames == {"x"}
\* Plaintext passwords, as sequences of characters; <<>> is the empty string.
Plaintexts == {<<"p">>, <<"q">>}
\* bcrypt draws a fresh salt per call, which makes two hashes of one plaintext differ.
Salts == {"s1", "s2"}

SubjectNames == {"math", "history"}
\* Session tokens the store can issue.
Tokens == {"t1", "t2"}
\* What the session cookie of a request can hold: nothing, bytes that do not
\* decode under the store's key, or a token.
Cookies == {"none", "malformed"} \cup Tokens

UserIDs == 1..MaxUsers

StatusOK == 200
StatusBadRequest == 400
StatusUnauthorized == 401
StatusNotFound == 404
StatusConflict == 409
\* No status line was written: the handler panicked before responding.
StatusNone == 0

VARIABLES
    users,          \* the users table: primary key -> row
    nextID,         \* next value of the users table's auto-increment key
    subjects,       \* the subjects table: primary key -> name
    nextSubjectID,  \* next value of the subjects table's auto-increment key
    userSubjects,   \* the user_subjects join table: <<user key, subject key>>
    sessions,       \* the session store: token -> [userID, expired]
    pc,             \* per worker: "idle" or the database call it is about to make
    req,            \* per worker: the request being (or last) served
    local,          \* per worker: the handler's local variables
    resp,           \* per worker: the response written for req
    served          \* requests accepted so far

userVars == <<users, nextID>>
subjectVars == <<subjects, nextSubjectID, userSubjects>>
vars == <<users, nextID, subjects, nextSubjectID, userSubjects, sessions,
          pc, req, local, resp, served>>

(***************************************************************************)
(* models.User, reduced to the fields the handlers read or write.          *)
(***************************************************************************)
ZeroUser ==
    [ID |-> 0, Username |-> "", Password |-> <<>>, IsTutor |-> FALSE, FirstName |-> ""]

Body(username, password, isTutor, firstName) ==
    [ID |-> 0, Username |-> username, Password |-> password,
     IsTutor |-> isTutor, FirstName |-> firstName]

(***************************************************************************)
(* bcrypt.  A hash string embeds its salt and is a one-way image of the    *)
(* plaintext: "$", the salt, then the plaintext it was made from.          *)
(***************************************************************************)
\* The password kept as submitted: string([]byte(user.Password)).
KeepPassword(password, salt) == password

GenerateFromPassword(password, salt) == <<"$", salt>> \o password

CompareHashAndPassword(hash, password) ==
    /\ Len(hash) >= 2
    /\ hash[1] = "$"
    /\ SubSeq(hash, 3, Len(hash)) = password

(***************************************************************************)
(* gorm calls on the users table.                                          *)
(***************************************************************************)
Min(S) == CHOOSE x \in S : \A y \in S : x <= y

\* db.First(&user, id): the row, or an error and an untouched (zero) user.
First(table, id) ==
    IF id \in DOMAIN table
    THEN [err |-> FALSE, user |-> table[id]]
    ELSE [err |-> TRUE, user |-> ZeroUser]

\* The uniqueness query with the not yet filled existingUser.Username in place of
\* user.Username: it matches the rows with an empty username.
WhereZeroUsernameFirst(table, username) ==
    LET hits == {i \in DOMAIN table : table[i].Username = ""}
    IN  IF hits = {}
        THEN [err |-> TRUE, user |-> ZeroUser]
        ELSE [err |-> FALSE, user |-> table[Min(hits)]]

\* db.Where("username = ?", name).First(&existingUser): exact match, lowest key first.
WhereUsernameFirst(table, username) ==
    LET hits == {i \in DOMAIN table : table[i].Username = username}
    IN  IF hits = {}
        THEN [err |-> TRUE, user |-> ZeroUser]
        ELSE [err |-> FALSE, user |-> table[Min(hits)]]

\* db.Create(&user): inserts every field and sets the generated key on user.
Create(table, id, user) ==
    [i \in DOMAIN table \cup {id} |->
        IF i = id THEN [user EXCEPT !.ID = id] ELSE table[i]]

\* db.Delete(&user): WHERE id = user.ID; with a zero key gorm refuses
\* (ErrMissingWhereClause) and nothing is deleted.
Delete(table, user) ==
    IF user.ID = 0
    THEN table
    ELSE [i \in DOMAIN table \ {user.ID} |-> table[i]]

\* Updates that leaves the password column out (Omit("password")).
AssignOmitPassword(user, values) ==
    [ID        |-> user.ID,
     Username  |-> IF values.Username # "" THEN values.Username ELSE user.Username,
     Password  |-> user.Password,
     IsTutor   |-> IF values.IsTutor THEN TRUE ELSE user.IsTutor,
     FirstName |-> IF values.FirstName # "" THEN values.FirstName ELSE user.FirstName]

\* db.Model(&user).Updates(values) with a struct: only the non-zero fields
\* of values are assigned, to the model in memory and to the row.
Assign(user, values) ==
    [ID        |-> user.ID,
     Username  |-> IF values.Username # "" THEN values.Username ELSE user.Username,
     Password  |-> IF values.Password # <<>> THEN values.Password ELSE user.Password,
     IsTutor   |-> IF values.IsTutor THEN TRUE ELSE user.IsTutor,
     FirstName |-> IF values.FirstName # "" THEN values.FirstName ELSE user.FirstName]

\* The UPDATE runs WHERE id = user.ID; with a zero key gorm refuses
\* (ErrMissingWhereClause) and no row changes.
Updates(table, user, values) ==
    IF user.ID = 0 \/ user.ID \notin DOMAIN table
    THEN table
    ELSE [table EXCEPT ![user.ID] = Assign(table[user.ID], values)]

\* db.Find(&users): every row, in primary-key order.
RECURSIVE FindFrom(_, _)
FindFrom(table, ids) ==
    IF ids = {}
    THEN <<>>
    ELSE LET i == Min(ids) IN <<table[i]>> \o FindFrom(table, ids \ {i})

\* db.First(&users) in place of db.Find(&users): the first row only.
FindFirstOnly(table) ==
    IF DOMAIN table = {} THEN <<>> ELSE <<table[Min(DOMAIN table)]>>

Find(table) == FindFrom(table, DOMAIN table)

(***************************************************************************)
(* Requests, handler locals and responses.                                 *)
(***************************************************************************)
\* seq numbers the requests in the order they were accepted.
Request(op, id, body, wellFormed, cookie, name) ==
    [seq |-> served + 1, op |-> op, id |-> id, body |-> body,
     wellFormed |-> wellFormed, cookie |-> cookie, name |-> name]

NoRequest ==
    [seq |-> 0, op |-> "none", id |-> 0, body |-> ZeroUser,
     wellFormed |-> TRUE, cookie |-> "none", name |-> ""]

\* user, updatedUser: the handlers' variables of those names; userID: the
\* session's "userID" value (<<>> is nil); subject: a subject's key (0: none).
NoLocal == [user |-> ZeroUser, updatedUser |-> ZeroUser, userID |-> <<>>, subject |-> 0]

\* No status line and no body: nothing was written (yet).
NoResponse == [status |-> StatusNone, users |-> <<>>]

\* sendError: the status and a message, no user record.
sendError(status) == [status |-> status, users |-> <<>>]

\* json.NewEncoder(w).Encode(...) after an implicit 200.
Encode(records) == [status |-> StatusOK, users |-> records]

Init ==
    /\ users = <<>>
    /\ nextID = 1
    /\ subjects = <<>>
    /\ nextSubjectID = 1
    /\ userSubjects = {}
    /\ sessions = <<>>
    /\ pc = [w \in Workers |-> "idle"]
    /\ req = [w \in Workers |-> NoRequest]
    /\ local = [w \in Workers |-> NoLocal]
    /\ resp = [w \in Workers |-> NoResponse]
    /\ served = 0

\* The server hands an incoming request to a free worker.
Accept(w, request) ==
    /\ pc[w] = "idle"
    /\ served < MaxRequests
    /\ served' = served + 1
    /\ req' = [req EXCEPT ![w] = request]

\* The handler goes on to its next database call.
Goto(w, label, locals) ==
    /\ pc' = [pc EXCEPT ![w] = label]
    /\ local' = [local EXCEPT ![w] = locals]
    /\ resp' = [resp EXCEPT ![w] = NoResponse]

\* The handler returns.
Respond(w, response) ==
    /\ pc' = [pc EXCEPT ![w] = "idle"]
    /\ resp' = [resp EXCEPT ![w] = response]

\* Creations that passed the uniqueness check and have not inserted yet.
PendingCreates == Cardinality({w \in Workers : pc[w] = "NewUserCreate"})

\* Hash strings a client was shown in a response to an earlier request.
ShownHashes ==
    {users[i].Password : i \in DOMAIN users} \cap
        {GenerateFromPassword(p, s) : p \in Plaintexts, s \in Salts}

(***************************************************************************)
(* NewUser                                                                 *)
(***************************************************************************)
\* Decode, the uniqueness query, and the hashing that follows it.
NewUserCheck(w, wellFormed, body, SaltSet) ==
    /\ Accept(w, Request("NewUser", 0, body, wellFormed, "none", ""))
    /\ IF ~wellFormed
       THEN /\ Respond(w, sendError(StatusBadRequest))
            /\ UNCHANGED local
       ELSE IF ~WhereUsernameFirst(users, body.Username).err
       THEN /\ Respond(w, sendError(StatusConflict))
            /\ UNCHANGED local
       ELSE /\ nextID + PendingCreates <= MaxUsers
            /\ \E salt \in SaltSet :
                  Goto(w, "NewUserCreate",
                       [NoLocal EXCEPT !.user =
                          [body EXCEPT !.Password = GenerateFromPassword(body.Password, salt)]])
    /\ UNCHANGED <<userVars, subjectVars, sessions>>

\* db.Create(&user) and the response.
NewUserCreate(w) ==
    /\ pc[w] = "NewUserCreate"
    /\ users' = Create(users, nextID, local[w].user)
    /\ nextID' = nextID + 1
    /\ local' = [local EXCEPT ![w].user = users'[nextID]]
    /\ Respond(w, Encode(<<users'[nextID]>>))
    /\ UNCHANGED <<req, served, subjectVars, sessions>>

(***************************************************************************)
(* DeleteUser                                                              *)
(***************************************************************************)
DeleteUserFirst(w, id) ==
    /\ Accept(w, Request("DeleteUser", id, ZeroUser, TRUE, "none", ""))
    /\ Goto(w, "DeleteUserDelete", [NoLocal EXCEPT !.user = First(users, id).user])
    /\ UNCHANGED <<userVars, subjectVars, sessions>>

DeleteUserDelete(w) ==
    /\ pc[w] = "DeleteUserDelete"
    /\ users' = Delete(users, local[w].user)
    /\ Respond(w, Encode(<<local[w].user>>))
    /\ UNCHANGED <<nextID, req, local, served, subjectVars, sessions>>

(***************************************************************************)
(* UpdateUser                                                              *)
(***************************************************************************)
\* db.First, Decode, and the comparison of the payload's password with the
\* stored hash; a malformed body panics before any response is written.
UpdateUserFirst(w, id, wellFormed, body, SaltSet) ==
    /\ Accept(w, Request("UpdateUser", id, body, wellFormed, "none", ""))
    /\ LET user == First(users, id).user
       IN  IF ~wellFormed
           THEN /\ Respond(w, NoResponse)
                /\ UNCHANGED local
           ELSE IF body.Password # user.Password
           THEN \E salt \in SaltSet :
                    Goto(w, "UpdateUserUpdates",
                         [NoLocal EXCEPT
                            !.user = user,
                            !.updatedUser = [body EXCEPT !.Password =
                                GenerateFromPassword(body.Password, salt)]])
           ELSE Goto(w, "UpdateUserUpdates",
                     [NoLocal EXCEPT !.user = user, !.updatedUser = body])
    /\ UNCHANGED <<userVars, subjectVars, sessions>>

UpdateUserUpdates(w) ==
    /\ pc[w] = "UpdateUserUpdates"
    /\ users' = Updates(users, local[w].user, local[w].updatedUser)
    /\ local' = [local EXCEPT ![w].user = Assign(local[w].user, local[w].updatedUser)]
    /\ Respond(w, Encode(<<local'[w].user>>))
    /\ UNCHANGED <<nextID, req, served, subjectVars, sessions>>

(***************************************************************************)
(* GetUser, GetAllUsers                                                    *)
(***************************************************************************)
GetUser(w, id) ==
    /\ Accept(w, Request("GetUser", id, ZeroUser, TRUE, "none", ""))
    /\ LET found == First(users, id)
       IN  IF found.err
           THEN Respond(w, sendError(StatusUnauthorized))
           ELSE Respond(w, Encode(<<found.user>>))
    /\ UNCHANGED <<userVars, local, subjectVars, sessions>>

GetAllUsers(w) ==
    /\ Accept(w, Request("GetAllUsers", 0, ZeroUser, TRUE, "none", ""))
    /\ Respond(w, Encode(Find(users)))
    /\ UNCHANGED <<userVars, local, subjectVars, sessions>>

(***************************************************************************)
(* The session store (gormstore) and GetUserFromSession.                   *)
(*                                                                         *)
(* A session row is "live" until its expiry time passes ("expired"); the   *)
(* periodic cleanup deletes expired rows ("swept": the row is gone, the    *)
(* token is never issued again).                                           *)
(***************************************************************************)
\* Create(userID) -> token: a login stores {userID} under a fresh token.
SessionCreate(token, id) ==
    /\ token \notin DOMAIN sessions
    /\ id \in DOMAIN users
    /\ sessions' = [t \in DOMAIN sessions \cup {token} |->
                      IF t = token THEN [userID |-> id, state |-> "live"] ELSE sessions[t]]
    /\ UNCHANGED <<userVars, subjectVars, pc, req, local, resp, served>>

\* Time passes beyond a session's expiry.
SessionExpire(token) ==
    /\ token \in DOMAIN sessions
    /\ sessions[token].state = "live"
    /\ sessions' = [sessions EXCEPT ![token].state = "expired"]
    /\ UNCHANGED <<userVars, subjectVars, pc, req, local, resp, served>>

\* go store.PeriodicCleanup(1*time.Hour, quit): deletes the expired rows.
PeriodicCleanup ==
    /\ \E t \in DOMAIN sessions : sessions[t].state = "expired"
    /\ sessions' = [t \in DOMAIN sessions |->
                      IF sessions[t].state = "expired"
                      THEN [sessions[t] EXCEPT !.state = "swept"]
                      ELSE sessions[t]]
    /\ UNCHANGED <<userVars, subjectVars, pc, req, local, resp, served>>

\* store.Get(r, "session"): what the handler may see, as [err, userID].  A live
\* session yields its values.  Without a cookie the store hands out a new, empty
\* session and no error.  A cookie that does not decode, or whose row is expired
\* or gone, yields a new empty session too, with or without an error depending
\* on the store.
storeGet(cookie) ==
    IF cookie \in DOMAIN sessions /\ sessions[cookie].state = "live"
    THEN {[err |-> FALSE, userID |-> <<sessions[cookie].userID>>]}
    ELSE IF cookie = "none"
    THEN {[err |-> FALSE, userID |-> <<>>]}
    ELSE {[err |-> TRUE, userID |-> <<>>], [err |-> FALSE, userID |-> <<>>]}

\* db.First(&user, userID) with the interface value read from the session.
\* With nil (no "userID" key) the outcome depends on the gorm build: either the
\* nil condition is rejected (an error), or it is skipped and the query runs
\* without a WHERE clause, which yields the row with the lowest key.
FirstByValue(table, userID) ==
    IF userID # <<>>
    THEN {First(table, userID[1])}
    ELSE {[err |-> TRUE, user |-> ZeroUser]} \cup
         (IF DOMAIN table = {} THEN {} ELSE {First(table, Min(DOMAIN table))})

GetUserFromSessionGet(w, cookie) ==
    /\ Accept(w, Request("GetUserFromSession", 0, ZeroUser, TRUE, cookie, ""))
    /\ \E session \in storeGet(cookie) :
          IF session.err
          THEN /\ Respond(w, sendError(StatusUnauthorized))
               /\ UNCHANGED local
          ELSE Goto(w, "GetUserFromSessionFirst", [NoLocal EXCEPT !.userID = session.userID])
    /\ UNCHANGED <<userVars, subjectVars, sessions>>

GetUserFromSessionFirst(w) ==
    /\ pc[w] = "GetUserFromSessionFirst"
    /\ \E found \in FirstByValue(users, local[w].userID) :
          IF found.err
          THEN /\ Respond(w, sendError(StatusUnauthorized))
               /\ UNCHANGED local
          ELSE /\ Respond(w, Encode(<<found.user>>))
               /\ local' = [local EXCEPT ![w].user = found.user]
    /\ UNCHANGED <<userVars, subjectVars, sessions, req, served>>

(***************************************************************************)
(* AddSubject: POST /api/users/{id}/subjects.                              *)
(***************************************************************************)
\* Subject rows that share the name, by key.
SubjectsNamed(name) == {s \in DOMAIN subjects : subjects[s] = name}

\* Requests that may still insert a subject row.
PendingSubjects ==
    Cardinality({w \in Workers : pc[w] \in {"AddSubjectLookup", "AddSubjectAppend"}})

\* The user is looked up first; NotFound if absent.
AddSubjectFirst(w, id, name) ==
    /\ Accept(w, Request("AddSubject", id, ZeroUser, TRUE, "none", name))
    /\ LET found == First(users, id)
       IN  IF found.err
           THEN /\ Respond(w, sendError(StatusNotFound))
                /\ UNCHANGED local
           ELSE /\ nextSubjectID + PendingSubjects <= MaxSubjects
                /\ Goto(w, "AddSubjectLookup", [NoLocal EXCEPT !.user = found.user])
    /\ UNCHANGED <<userVars, subjectVars, sessions>>

\* The subject is looked up by exact name.
AddSubjectLookup(w) ==
    /\ pc[w] = "AddSubjectLookup"
    /\ LET hits == SubjectsNamed(req[w].name)
       IN  Goto(w, "AddSubjectAppend",
                [local[w] EXCEPT !.subject = IF hits = {} THEN 0 ELSE Min(hits)])
    /\ UNCHANGED <<userVars, subjectVars, sessions, req, served>>

\* The found row is associated with the user; a new row is created first
\* if none was found.
AddSubjectAppend(w) ==
    /\ pc[w] = "AddSubjectAppend"
    /\ IF local[w].subject = 0
       THEN /\ subjects' = [s \in DOMAIN subjects \cup {nextSubjectID} |->
                              IF s = nextSubjectID THEN req[w].name ELSE subjects[s]]
            /\ nextSubjectID' = nextSubjectID + 1
            /\ userSubjects' = userSubjects \cup {<<local[w].user.ID, nextSubjectID>>}
            /\ local' = [local EXCEPT ![w].subject = nextSubjectID]
       ELSE /\ userSubjects' = userSubjects \cup {<<local[w].user.ID, local[w].subject>>}
            /\ UNCHANGED <<subjects, nextSubjectID, local>>
    /\ Respond(w, Encode(<<>>))
    /\ UNCHANGED <<userVars, sessions, req, served>>

(***************************************************************************)
(* The user requests a run draws from the given payloads.                  *)
(***************************************************************************)
Register(w, NewBodies, SaltSet) ==
    \/ \E body \in NewBodies : NewUserCheck(w, TRUE, body, SaltSet)
    \/ NewUserCheck(w, FALSE, ZeroUser, SaltSet)
    \/ NewUserCreate(w)

Remove(w) ==
    \/ \E id \in UserIDs : DeleteUserFirst(w, id)
    \/ DeleteUserDelete(w)

Modify(w, UpdateBodies, SaltSet) ==
    \/ \E id \in UserIDs, body \in UpdateBodies : UpdateUserFirst(w, id, TRUE, body, SaltSet)
    \/ \E id \in UserIDs : UpdateUserFirst(w, id, FALSE, ZeroUser, SaltSet)
    \/ UpdateUserUpdates(w)

Read(w) ==
    \/ \E id \in UserIDs : GetUser(w, id)
    \/ GetAllUsers(w)

(***************************************************************************)
(* Spec: registrations, renames, deletions and reads; every user has the   *)
(* same password and profile, so rows differ in their usernames only.      *)
(***************************************************************************)
NameBodies == {Body(u, <<"p">>, FALSE, "") : u \in Usernames}
RenameBodies == {Body(u, <<>>, FALSE, "") : u \in Usernames}

Next ==
    \E w \in Workers :
        \/ Register(w, NameBodies, {"s1"})
        \/ Remove(w)
        \/ Modify(w, RenameBodies, {"s1"})
        \/ Read(w)

Spec == Init /\ [][Next]_vars

(***************************************************************************)
(* SpecPasswords: registrations, deletions and password updates; an update *)
(* submits any plaintext, no password, or a hash string shown earlier, and *)
(* every hashing draws a fresh salt.                                       *)
(***************************************************************************)
Passwords == Plaintexts \cup {<<>>} \cup ShownHashes

NextPasswords ==
    \E w \in Workers :
        \/ Register(w, NameBodies, Salts)
        \/ Remove(w)
        \/ Modify(w, {Body("", p, FALSE, "") : p \in Passwords}, Salts)

SpecPasswords == Init /\ [][NextPasswords]_vars

(***************************************************************************)
(* SpecProfile: one username at registration, every combination of the     *)
(* other fields, present or zero, in registrations and updates.            *)
(***************************************************************************)
NextProfile ==
    \E w \in Workers :
        \/ Register(w, {Body("a", <<"p">>, t, f) : t \in BOOLEAN, f \in FirstNames \cup {""}},
                    {"s1"})
        \/ Modify(w, {Body(u, p, t, f) : u \in {"", "b"}, p \in {<<>>, <<"q">>},
                                         t \in BOOLEAN, f \in FirstNames \cup {""}},
                  {"s1"})
        \/ Read(w)

SpecProfile == Init /\ [][NextProfile]_vars

(***************************************************************************)
(* SpecSessions: registrations, deletions, logins, expiry, cleanup and     *)
(* GetUserFromSession.                                                     *)
(***************************************************************************)
NextSessions ==
    \/ \E w \in Workers :
        \/ Register(w, NameBodies, {"s1"})
        \/ Remove(w)
        \/ \E cookie \in Cookies : GetUserFromSessionGet(w, cookie)
        \/ GetUserFromSessionFirst(w)
    \/ \E token \in Tokens, id \in UserIDs : SessionCreate(token, id)
    \/ \E token \in Tokens : SessionExpire(token)
    \/ PeriodicCleanup

SpecSessions == Init /\ [][NextSessions]_vars

(***************************************************************************)
(* SpecSubjects: registrations and AddSubject.                             *)
(***************************************************************************)
NextSubjects ==
    \E w \in Workers :
        \/ Register(w, NameBodies, {"s1"})
        \/ \E id \in UserIDs, name \in SubjectNames : AddSubjectFirst(w, id, name)
        \/ AddSubjectLookup(w)
        \/ AddSubjectAppend(w)

SpecSubjects == Init /\ [][NextSubjects]_vars

(***************************************************************************)
(* Properties.                                                             *)
(***************************************************************************)
\* Worker w accepts a request for op in this step.
Accepted(w, op) == req'[w].seq # req[w].seq /\ req'[w].op = op

\* Worker w makes the database call at label and returns in this step.
Returns(w, label) == pc[w] = label /\ pc'[w] = "idle"

\* The rows that hold a username.
Holders(table, username) == {i \in DOMAIN table : table[i].Username = username}

\* The plaintext a hash string was made from.
PlaintextOf(hash) == SubSeq(hash, 3, Len(hash))

\* The string is an output of the hashing primitive.
IsHash(s) ==
    /\ Len(s) >= 2
    /\ \E salt \in Salts : s = GenerateFromPassword(PlaintextOf(s), salt)

\* C1: in every reachable state no two stored users have the same username.
C1_UniqueUsernames ==
    \A i, j \in DOMAIN users : users[i].Username = users[j].Username => i = j

C3_DeleteRemoves ==
    [][/\ \A w \in Workers :
            /\ (Returns(w, "DeleteUserDelete") /\ local[w].user.ID \in DOMAIN users) =>
                  LET id == local[w].user.ID
                  IN  /\ id \notin DOMAIN users'
                      /\ Holders(users', users[id].Username) = {}
                      /\ \A j \in DOMAIN users \ {id} :
                            j \in DOMAIN users' /\ users'[j] = users[j]
            /\ (Accepted(w, "GetUser") /\ req'[w].id \notin DOMAIN users) =>
                  resp'[w].status # StatusOK /\ resp'[w].users = <<>>
       /\ \A i \in DOMAIN users' : i \in DOMAIN users \/ i = nextID
      ]_vars

\* C5: there is at most one Subject row per subject name.
C5_OneRowPerSubjectName ==
    \A name \in SubjectNames : Cardinality(SubjectsNamed(name)) <= 1

\* C6: GetAllUsers answers 200 with exactly the stored rows, one record per
\* row and no duplicates; when every user created so far is still stored, the
\* number of records is the number of users created.
C6_GetAllUsersExact ==
    [][\A w \in Workers :
        Accepted(w, "GetAllUsers") =>
            LET records == resp'[w].users
            IN  /\ resp'[w].status = StatusOK
                /\ Len(records) = Cardinality(DOMAIN users)
                /\ {records[k] : k \in 1..Len(records)} = {users[i] : i \in DOMAIN users}
                /\ DOMAIN users = 1..(nextID - 1) => Len(records) = nextID - 1
      ]_vars

\* C6 witness: GetAllUsers has answered with the two users that are stored.
C6_Witness ==
    \E w \in Workers :
        /\ pc[w] = "idle" /\ req[w].op = "GetAllUsers"
        /\ Len(resp[w].users) = 2
        /\ resp[w].users = Find(users)

C8_MissingUserFails ==
    [][\A w \in Workers :
        ((Returns(w, "DeleteUserDelete") \/ Returns(w, "UpdateUserUpdates"))
            /\ local[w].user.ID = 0) =>
                /\ resp'[w].status # StatusOK
                /\ users' = users
      ]_vars

\* C10: UpdateUser on an existing user stores every field of the payload,
\* whatever its value (is_tutor=false and an empty first_name included), and
\* answers with the stored record.
C10_PayloadOverwrites ==
    [][\A w \in Workers :
        (Returns(w, "UpdateUserUpdates") /\ local[w].user.ID \in DOMAIN users) =>
            LET id == local[w].user.ID
            IN  /\ users'[id].Username = req[w].body.Username
                /\ users'[id].IsTutor = req[w].body.IsTutor
                /\ users'[id].FirstName = req[w].body.FirstName
                /\ resp'[w] = Encode(<<users'[id]>>)
      ]_vars

\* C4 as stated: an UpdateUser on an existing user whose payload password
\* differs from the old plaintext leaves a hash that verifies against the new
\* plaintext and not against the old one.
C4_NewPasswordVerifies ==
    [][\A w \in Workers :
        (Returns(w, "UpdateUserUpdates") /\ local[w].user.ID \in DOMAIN users) =>
            LET id == local[w].user.ID
                new == req[w].body.Password
                old == PlaintextOf(users[id].Password)
            IN  new # old =>
                    /\ CompareHashAndPassword(users'[id].Password, new)
                    /\ ~CompareHashAndPassword(users'[id].Password, old)
      ]_vars

\* C4 amended: the same, for a payload password that also differs from the
\* hash string UpdateUser read from the row.
C4_NewPasswordVerifiesUnlessHash ==
    [][\A w \in Workers :
        (Returns(w, "UpdateUserUpdates") /\ local[w].user.ID \in DOMAIN users) =>
            LET id == local[w].user.ID
                new == req[w].body.Password
                old == PlaintextOf(users[id].Password)
            IN  (new # old /\ new # local[w].user.Password) =>
                    /\ CompareHashAndPassword(users'[id].Password, new)
                    /\ ~CompareHashAndPassword(users'[id].Password, old)
      ]_vars

\* C4 witness: a user registered with one plaintext was updated with another,
\* and the stored hash verifies against the new one only.
C4_Witness ==
    \E w1, w2 \in Workers :
        /\ pc[w1] = "idle" /\ req[w1].op = "NewUser" /\ resp[w1].status = StatusOK
        /\ req[w1].body.Password = <<"p">>
        /\ pc[w2] = "idle" /\ req[w2].op = "UpdateUser" /\ resp[w2].status = StatusOK
        /\ req[w2].body.Password = <<"q">>
        /\ req[w2].seq > req[w1].seq
        /\ req[w2].id = resp[w1].users[1].ID
        /\ req[w2].id \in DOMAIN users
        /\ CompareHashAndPassword(users[req[w2].id].Password, <<"q">>)
        /\ ~CompareHashAndPassword(users[req[w2].id].Password, <<"p">>)

\* C9 as stated: every stored password is an output of the hashing primitive;
\* after NewUser or UpdateUser with submitted password p the stored password
\* differs from p and verifies against p.
C9_NeverPlaintext ==
    [][/\ \A i \in DOMAIN users' : IsHash(users'[i].Password)
       /\ \A w \in Workers :
            /\ Returns(w, "NewUserCreate") =>
                  /\ users'[nextID].Password # req[w].body.Password
                  /\ CompareHashAndPassword(users'[nextID].Password, req[w].body.Password)
            /\ (Returns(w, "UpdateUserUpdates") /\ local[w].user.ID \in DOMAIN users
                    /\ req[w].body.Password # <<>>) =>
                  /\ users'[local[w].user.ID].Password # req[w].body.Password
                  /\ CompareHashAndPassword(users'[local[w].user.ID].Password,
                                            req[w].body.Password)
      ]_vars

\* C9 amended: every stored password is an output of the hashing primitive;
\* after NewUser with submitted password p, and after UpdateUser with a
\* submitted p other than the hash string it read from the row, the stored
\* password differs from p and verifies against p; UpdateUser with p equal to
\* that hash string writes the hash string back.
C9_NeverPlaintextUnlessHash ==
    [][/\ \A i \in DOMAIN users' : IsHash(users'[i].Password)
       /\ \A w \in Workers :
            /\ Returns(w, "NewUserCreate") =>
                  /\ users'[nextID].Password # req[w].body.Password
                  /\ CompareHashAndPassword(users'[nextID].Password, req[w].body.Password)
            /\ (Returns(w, "UpdateUserUpdates") /\ local[w].user.ID \in DOMAIN users
                    /\ req[w].body.Password # <<>>) =>
                  IF req[w].body.Password # local[w].user.Password
                  THEN /\ users'[local[w].user.ID].Password # req[w].body.Password
                       /\ CompareHashAndPassword(users'[local[w].user.ID].Password,
                                                 req[w].body.Password)
                  ELSE users'[local[w].user.ID].Password = req[w].body.Password
      ]_vars

\* C9 witness: a registration stored a hash that verifies against the
\* submitted plaintext, and an update submitted the stored hash string, which
\* is what the row holds.
C9_Witness ==
    \E w1, w2 \in Workers :
        /\ pc[w1] = "idle" /\ req[w1].op = "NewUser" /\ resp[w1].status = StatusOK
        /\ resp[w1].users[1].Password # req[w1].body.Password
        /\ CompareHashAndPassword(resp[w1].users[1].Password, req[w1].body.Password)
        /\ pc[w2] = "idle" /\ req[w2].op = "UpdateUser" /\ resp[w2].status = StatusOK
        /\ req[w2].id \in DOMAIN users
        /\ IsHash(req[w2].body.Password)
        /\ users[req[w2].id].Password = req[w2].body.Password

\* C11: an UpdateUser whose payload carries no password leaves the stored
\* password hash of an existing user unchanged, so the plaintext that verified
\* before still verifies; every other field absent from the payload keeps its
\* stored value too.
C11_AbsentFieldsKept ==
    [][\A w \in Workers :
        (Returns(w, "UpdateUserUpdates") /\ local[w].user.ID \in DOMAIN users) =>
            LET id == local[w].user.ID
                body == req[w].body
            IN  /\ body.Password = <<>> =>
                      /\ users'[id].Password = users[id].Password
                      /\ CompareHashAndPassword(users'[id].Password,
                                                PlaintextOf(users[id].Password))
                /\ body.Username = "" => users'[id].Username = users[id].Username
                /\ body.FirstName = "" => users'[id].FirstName = users[id].FirstName
                /\ ~body.IsTutor => users'[id].IsTutor = users[id].IsTutor
      ]_vars

====
